---------------------------- MODULE Spec2Model ----------------------------
(***************************************************************************)
(* Model of app.py: the ESG proxy score (calculate_esg), the competitor    *)
(* directory (sector_competitors) and the analysis handler that runs when  *)
(* the "Analyze ESG Performance" button is pressed.                        *)
(*                                                                         *)
(* Numbers.  A Python float is modelled as a record: k = "num" with a      *)
(* fixed-point value v, k = "nan" for NaN, k = "none" for Python's None.   *)
(* Daily returns and their statistics are kept in millionths (Micro),      *)
(* annualised figures and scores in thousandths (Milli); every division    *)
(* rounds to the nearest unit, as float arithmetic rounds to the nearest   *)
(* representable value.  NaN propagates through arithmetic and np.clip.    *)
(***************************************************************************)
EXTENDS Integers, Sequences, FiniteSets, TLC

VARIABLES pc, company, sector, competitor, closes, company_esg, hist,
          competitor_esg, out, calls, fault, probe

vars == <<pc, company, sector, competitor, closes, company_esg, hist,
          competitor_esg, out, calls, fault, probe>>

-----------------------------------------------------------------------------
(* Bounds of the model *)

MaxLen == 3
BasePrice == 1000
PriceSpread == 2
ProbeN == 6

Prices == BasePrice .. (BasePrice + PriceSpread)

RECURSIVE SeqsUpTo(_)
SeqsUpTo(n) ==
    IF n = 0 THEN {<<>>}
    ELSE LET shorter == SeqsUpTo(n - 1)
         IN  shorter \cup {Append(s, p) : s \in {t \in shorter : Len(t) = n - 1}, p \in Prices}

PriceSeries == SeqsUpTo(MaxLen)

-----------------------------------------------------------------------------
(* Floats *)

Milli == 10 ^ 3
Micro == 10 ^ 6

F(v) == [k |-> "num", v |-> v]
NaN == [k |-> "nan", v |-> 0]
None == [k |-> "none", v |-> 0]

IsNum(x) == x.k = "num"

\* a / b rounded to the nearest integer, b > 0
RDiv(a, b) == (2 * a + b) \div (2 * b)

RECURSIVE SqrtSearch(_, _, _)
SqrtSearch(n, lo, hi) ==
    IF lo >= hi THEN lo
    ELSE LET mid == (lo + hi + 1) \div 2
         IN  IF mid * mid <= n THEN SqrtSearch(n, mid, hi)
             ELSE SqrtSearch(n, lo, mid - 1)

ISqrt(n) == SqrtSearch(n, 0, 46340)

-----------------------------------------------------------------------------
(* Program constants *)

TradingDays == 252
WeightVol == 35
WeightReturn == 30
WeightSharpe == 35
VolFactor == 8
ScoreMax == 100

\* 1e-6, as a count of units per 1
EpsInv == 10 ^ 6

\* np.sqrt(252) in thousandths
Sqrt252 == ISqrt(TradingDays * Milli * Milli)

NoTicker == "<None>"

sector_competitors ==
    [s \in {"Technology", "Financial Services", "Energy",
            "Consumer Cyclical", "Healthcare"} |->
        CASE s = "Technology" -> <<"AAPL", "MSFT", "GOOGL", "NVDA">>
          [] s = "Financial Services" -> <<"JPM", "BAC", "WFC">>
          [] s = "Energy" -> <<"XOM", "CVX">>
          [] s = "Consumer Cyclical" -> <<"AMZN", "TSLA">>
          [] s = "Healthcare" -> <<"JNJ", "PFE">>]


-----------------------------------------------------------------------------
(* calculate_esg *)

\* hist["Close"].pct_change(): no return for the first row
pct_change(prices) ==
    [i \in 1 .. Len(prices) |->
        IF i = 1 THEN NaN
        ELSE F(RDiv(prices[i] * Micro, prices[i - 1]) - Micro)]

WithReturns(prices) ==
    [i \in 1 .. Len(prices) |->
        [Close |-> prices[i], returns |-> pct_change(prices)[i]]]

\* hist.dropna(): the rows holding a NaN are removed
dropna(rows) == SelectSeq(rows, LAMBDA r : IsNum(r.returns))

RECURSIVE SumReturns(_)
SumReturns(rows) ==
    IF rows = <<>> THEN 0 ELSE Head(rows).returns.v + SumReturns(Tail(rows))

RECURSIVE SumSquares(_)
SumSquares(rows) ==
    IF rows = <<>> THEN 0
    ELSE Head(rows).returns.v * Head(rows).returns.v + SumSquares(Tail(rows))

\* Series.mean(): NaN for an empty series
Mean(rows) ==
    IF Len(rows) = 0 THEN NaN ELSE F(RDiv(SumReturns(rows), Len(rows)))

\* Series.std(): the sample standard deviation (ddof = 1), NaN when fewer
\* than two values remain
Std(rows) ==
    LET n == Len(rows)
        s == SumReturns(rows)
    IN  IF n < 2 THEN NaN
        ELSE F(ISqrt(RDiv(n * SumSquares(rows) - s * s, n * (n - 1))))

\* std * np.sqrt(252), Micro -> Milli
Volatility(rows) ==
    IF IsNum(Std(rows)) THEN F(RDiv(Std(rows).v * Sqrt252, Micro)) ELSE NaN

\* mean * 252, Micro -> Milli
MeanReturn(rows) ==
    IF IsNum(Mean(rows)) THEN F(RDiv(Mean(rows).v * TradingDays, Micro \div Milli))
    ELSE NaN

\* mean_return / (volatility + 1e-6)
SharpeRatio(mean_return, volatility) ==
    IF IsNum(mean_return) /\ IsNum(volatility)
    THEN LET K == EpsInv \div Milli
         IN  F(RDiv(mean_return.v * Milli * K, volatility.v * K + 1))
    ELSE NaN

\* a clip that forgets the lower bound
ClipUpperOnly(x, lo, hi) ==
    IF ~IsNum(x) THEN NaN
    ELSE IF x.v > hi THEN F(hi)
    ELSE x

\* np.clip(x, lo, hi): NaN stays NaN
Clip(x, lo, hi) ==
    IF ~IsNum(x) THEN NaN
    ELSE IF x.v < lo THEN F(lo)
    ELSE IF x.v > hi THEN F(hi)
    ELSE x

\* 1 / (1 + volatility * 8)
VolScore(volatility) ==
    IF IsNum(volatility)
    THEN F(RDiv(Milli * Milli, Milli + volatility.v * VolFactor))
    ELSE NaN

\* np.clip((mean_return + 0.2) / 0.4, 0, 1)
ReturnScore(mean_return) ==
    IF IsNum(mean_return)
    THEN Clip(F(RDiv((mean_return.v + Milli \div 5) * Milli, (2 * Milli) \div 5)),
              0, Milli)
    ELSE NaN

\* np.clip((sharpe_ratio + 2) / 4, 0, 1)
SharpeScore(sharpe_ratio) ==
    IF IsNum(sharpe_ratio)
    THEN Clip(F(RDiv(sharpe_ratio.v + 2 * Milli, 4)), 0, Milli)
    ELSE NaN

\* float(np.clip(vol_score*35 + return_score*30 + sharpe_score*35, 0, 100))
EsgScore(vol_score, return_score, sharpe_score) ==
    IF IsNum(vol_score) /\ IsNum(return_score) /\ IsNum(sharpe_score)
    THEN Clip(F(vol_score.v * WeightVol + return_score.v * WeightReturn
                  + sharpe_score.v * WeightSharpe),
              0, ScoreMax * Milli)
    ELSE NaN

\* calculate_esg, given the closing prices stock.history(period="1y") returned;
\* the intermediate values are kept in the result for inspection
calculate_esg(prices) ==
    IF prices = <<>>
    THEN [esg_score |-> None, hist |-> <<>>, volatility |-> None,
          mean_return |-> None, sharpe_ratio |-> None, vol_score |-> None,
          return_score |-> None, sharpe_score |-> None]
    ELSE LET rows == dropna(WithReturns(prices))
             volatility == Volatility(rows)
             mean_return == MeanReturn(rows)
             sharpe_ratio == SharpeRatio(mean_return, volatility)
             vol_score == VolScore(volatility)
             return_score == ReturnScore(mean_return)
             sharpe_score == SharpeScore(sharpe_ratio)
         IN  [esg_score |-> EsgScore(vol_score, return_score, sharpe_score),
              hist |-> rows, volatility |-> volatility,
              mean_return |-> mean_return, sharpe_ratio |-> sharpe_ratio,
              vol_score |-> vol_score, return_score |-> return_score,
              sharpe_score |-> sharpe_score]

-----------------------------------------------------------------------------
(* Competitor selection *)

\* st.text_input(...).upper(), on the ticker texts the model enters
Upper(raw) ==
    CASE raw = "aapl" -> "AAPL"
      [] raw = "cvx" -> "CVX"
      [] OTHER -> raw

\* info.get("sector", "Unknown")
InfoSector(info) == IF info.has THEN info.sector ELSE "Unknown"

\* the list without the "c != company" filter
competitor_list_unfiltered(sec, comp) == sector_competitors[sec]

\* [c for c in sector_competitors[sector] if c != company]
competitor_list(sec, comp) ==
    SelectSeq(sector_competitors[sec], LAMBDA c : c # comp)

\* the competitor chosen for a company of the detected sector, None if there
\* is none
SelectCompetitor(sec, comp) ==
    IF sec \in DOMAIN sector_competitors
    THEN IF competitor_list(sec, comp) # <<>>
         THEN competitor_list(sec, comp)[1]
         ELSE NoTicker
    ELSE NoTicker

\* a test that takes None for a competitor
TruthyAlways(c) == TRUE

\* "if competitor:" - None is false, a ticker text is true unless empty
Truthy(c) == c # NoTicker /\ c # ""

\* a test that never sees the missing score
IsNoneNever(x) == FALSE

\* "company_esg is None"
IsNone(x) == x.k = "none"

\* round(x, 2) raises TypeError on None; it returns NaN for NaN
RoundRaises(x) == x.k = "none"

-----------------------------------------------------------------------------
(* The analysis handler *)

\* the sections in the order the handler renders them
Sections == <<"gauge", "price", "vol", "comp_chart", "comp_table", "insight">>

\* the insight rendered before the comparison rather than after it
AfterSectionInsightFirst(section, comp) ==
    CASE section = "gauge" -> "price"
      [] section = "price" -> "vol"
      [] section = "vol" -> "insight"
      [] section = "insight" -> IF comp # NoTicker THEN "comp_calc" ELSE "done"
      [] section = "comp_chart" -> "comp_table"
      [] section = "comp_table" -> "done"

\* the step that follows the rendering of a section
AfterSection(section, comp) ==
    CASE section = "gauge" -> "price"
      [] section = "price" -> "vol"
      [] section = "vol" -> IF Truthy(comp) THEN "comp_calc" ELSE "insight"
      [] section = "comp_chart" -> "comp_table"
      [] section = "comp_table" -> "insight"
      [] section = "insight" -> "done"

\* except: st.error("Data fetch failed. Try another ticker.")
Except(shown) == Append(shown, "error_fetch")

\* what the market data provider may answer
InfoAnswers ==
    {[raises |-> TRUE, has |-> FALSE, sector |-> ""]}
    \cup {[raises |-> FALSE, has |-> FALSE, sector |-> ""]}
    \cup {[raises |-> FALSE, has |-> TRUE, sector |-> s] :
             s \in {"Technology", "Energy", "Real Estate"}}

TickerInputs == {"", "aapl", "MSFT", "XOM", "cvx", "ZZZ"}

NoCalls == [primary |-> 0, competitor |-> 0]
NoProbe == [kind |-> "none", x1 |-> 0, x2 |-> 0, y1 |-> None, y2 |-> None]

Idle ==
    /\ pc = "idle"
    /\ company = ""
    /\ sector = ""
    /\ competitor = NoTicker
    /\ closes = <<>>
    /\ company_esg = None
    /\ hist = <<>>
    /\ competitor_esg = None
    /\ out = <<>>
    /\ calls = NoCalls
    /\ fault = "none"

Init == Idle /\ probe = NoProbe

\* the button is pressed: the script runs with the text of the input box
Click ==
    /\ pc = "idle"
    /\ \E raw \in TickerInputs :
        /\ company' = Upper(raw)
        /\ IF Upper(raw) = ""
           THEN /\ out' = Append(out, "warning")
                /\ pc' = "done"
           ELSE /\ out' = out
                /\ pc' = "info"
    /\ UNCHANGED <<sector, competitor, closes, company_esg, hist,
                   competitor_esg, calls, fault, probe>>

\* stock.info, the sector and the competitor
FetchInfo ==
    /\ pc = "info"
    /\ \E info \in InfoAnswers :
        IF info.raises
        THEN /\ out' = Except(out)
             /\ fault' = "info"
             /\ pc' = "done"
             /\ UNCHANGED <<sector, competitor>>
        ELSE /\ sector' = InfoSector(info)
             /\ competitor' = SelectCompetitor(InfoSector(info), company)
             /\ pc' = "calc"
             /\ UNCHANGED <<out, fault>>
    /\ UNCHANGED <<company, closes, company_esg, hist, competitor_esg,
                   calls, probe>>

\* company_esg, hist = calculate_esg(company)
CalcPrimary ==
    /\ pc = "calc"
    /\ calls' = [calls EXCEPT !.primary = @ + 1]
    /\ \/ /\ out' = Except(out)
          /\ fault' = "history"
          /\ pc' = "done"
          /\ UNCHANGED <<closes, company_esg, hist>>
       \/ \E prices \in PriceSeries :
            LET r == calculate_esg(prices)
            IN  /\ closes' = prices
                /\ company_esg' = r.esg_score
                /\ hist' = r.hist
                /\ fault' = fault
                /\ IF IsNone(r.esg_score)
                   THEN /\ out' = Append(out, "error_no_data")
                        /\ pc' = "done"
                   ELSE /\ out' = out
                        /\ pc' = "gauge"
    /\ UNCHANGED <<company, sector, competitor, competitor_esg, probe>>

\* the gauge, the price chart, the rolling volatility chart, the insight text
\* (plotting accepts a NaN score and an empty frame: no exception here)
Render ==
    /\ pc \in {"gauge", "price", "vol", "insight"}
    /\ out' = Append(out, pc)
    /\ pc' = AfterSection(pc, competitor)
    /\ UNCHANGED <<company, sector, competitor, closes, company_esg, hist,
                   competitor_esg, calls, fault, probe>>

\* competitor_esg, _ = calculate_esg(competitor)
CalcCompetitor ==
    /\ pc = "comp_calc"
    /\ calls' = [calls EXCEPT !.competitor = @ + 1]
    /\ \/ /\ out' = Except(out)
          /\ fault' = "competitor"
          /\ pc' = "done"
          /\ UNCHANGED competitor_esg
       \/ \E prices \in PriceSeries :
            /\ competitor_esg' = calculate_esg(prices).esg_score
            /\ pc' = "comp_chart"
            /\ UNCHANGED <<out, fault>>
    /\ UNCHANGED <<company, sector, competitor, closes, company_esg, hist,
                   probe>>

\* the benchmarking header and the bar chart of the two scores
RenderCompChart ==
    /\ pc = "comp_chart"
    /\ out' = Append(out, "comp_chart")
    /\ pc' = AfterSection("comp_chart", competitor)
    /\ UNCHANGED <<company, sector, competitor, closes, company_esg, hist,
                   competitor_esg, calls, fault, probe>>

\* the table of the two rounded scores
RenderCompTable ==
    /\ pc = "comp_table"
    /\ IF RoundRaises(company_esg) \/ RoundRaises(competitor_esg)
       THEN /\ out' = Except(out)
            /\ pc' = "done"
       ELSE /\ out' = Append(out, "comp_table")
            /\ pc' = AfterSection("comp_table", competitor)
    /\ UNCHANGED <<company, sector, competitor, closes, company_esg, hist,
                   competitor_esg, calls, fault, probe>>

\* the next press of the button starts a new run of the script
Rerun ==
    /\ pc = "done"
    /\ pc' = "idle"
    /\ company' = ""
    /\ sector' = ""
    /\ competitor' = NoTicker
    /\ closes' = <<>>
    /\ company_esg' = None
    /\ hist' = <<>>
    /\ competitor_esg' = None
    /\ out' = <<>>
    /\ calls' = NoCalls
    /\ fault' = "none"
    /\ UNCHANGED probe

Next ==
    \/ Click
    \/ FetchInfo
    \/ CalcPrimary
    \/ Render
    \/ CalcCompetitor
    \/ RenderCompChart
    \/ RenderCompTable
    \/ Rerun

Spec == Init /\ [][Next]_vars

-----------------------------------------------------------------------------
(* The competitor directory on its own: every ticker of the directory, and  *)
(* one outside it, against every sector of the directory and two outside it *)

DirInputs ==
    {"aapl", "MSFT", "GOOGL", "NVDA", "JPM", "BAC", "WFC", "XOM", "cvx",
     "AMZN", "TSLA", "JNJ", "PFE", "ZZZ"}

DirSectors == DOMAIN sector_competitors \cup {"Unknown", "Real Estate"}

DirInit ==
    /\ pc = "dir_start"
    /\ \E raw \in DirInputs : company = Upper(raw)
    /\ sector \in DirSectors
    /\ competitor = NoTicker
    /\ closes = <<>>
    /\ company_esg = None
    /\ hist = <<>>
    /\ competitor_esg = None
    /\ out = <<>>
    /\ calls = NoCalls
    /\ fault = "none"
    /\ probe = NoProbe

DirSelect ==
    /\ pc = "dir_start"
    /\ competitor' = SelectCompetitor(sector, company)
    /\ pc' = "dir_done"
    /\ UNCHANGED <<company, sector, closes, company_esg, hist,
                   competitor_esg, out, calls, fault, probe>>

DirNext == DirSelect

DirSpec == DirInit /\ [][DirNext]_vars

-----------------------------------------------------------------------------
(* The two clipped sub-scores on their own, on pairs of arguments around    *)
(* the clip boundaries                                                      *)

ReturnLow == 0 - Milli \div 5
ReturnHigh == Milli \div 5
SharpeLow == 0 - 2 * Milli
SharpeHigh == 2 * Milli

ProbeArgs(low, high) ==
    {(i * (high - low)) \div 8 : i \in (0 - ProbeN) .. ProbeN}
    \cup {low - 1, low, low + 1, high - 1, high, high + 1}

ProbeInit ==
    /\ pc = "probe_start"
    /\ company = ""
    /\ sector = ""
    /\ competitor = NoTicker
    /\ closes = <<>>
    /\ company_esg = None
    /\ hist = <<>>
    /\ competitor_esg = None
    /\ out = <<>>
    /\ calls = NoCalls
    /\ fault = "none"
    /\ \/ \E a, b \in ProbeArgs(ReturnLow, ReturnHigh) :
            probe = [kind |-> "return", x1 |-> a, x2 |-> b,
                     y1 |-> None, y2 |-> None]
       \/ \E a, b \in ProbeArgs(SharpeLow, SharpeHigh) :
            probe = [kind |-> "sharpe", x1 |-> a, x2 |-> b,
                     y1 |-> None, y2 |-> None]

ProbeApply ==
    /\ pc = "probe_start"
    /\ probe' = IF probe.kind = "return"
                THEN [probe EXCEPT !.y1 = ReturnScore(F(probe.x1)),
                                   !.y2 = ReturnScore(F(probe.x2))]
                ELSE [probe EXCEPT !.y1 = SharpeScore(F(probe.x1)),
                                   !.y2 = SharpeScore(F(probe.x2))]
    /\ pc' = "probe_done"
    /\ UNCHANGED <<company, sector, competitor, closes, company_esg, hist,
                   competitor_esg, out, calls, fault>>

ProbeNext == ProbeApply

ProbeSpec == ProbeInit /\ [][ProbeNext]_vars

-----------------------------------------------------------------------------
(* Properties *)

Range(seq) == {seq[i] : i \in DOMAIN seq}
AllEqual(prices) == \A i, j \in DOMAIN prices : prices[i] = prices[j]

\* the primary ticker's history was fetched and returned `closes`
PrimaryFetched == calls.primary = 1 /\ fault \notin {"info", "history"}

InRange(x, lo, hi) == IsNum(x) /\ lo <= x.v /\ x.v <= hi

\* C1: for every price series of at least 2 points that are not all equal,
\* the esg_score calculate_esg returns lies in [0, 100]
C1_EsgInRange ==
    (PrimaryFetched /\ Len(closes) >= 2 /\ ~AllEqual(closes))
        => InRange(company_esg, 0, ScoreMax * Milli)

\* the same from 3 points on, where the sample deviation is defined
EsgInRangeFromThreePoints ==
    (PrimaryFetched /\ Len(closes) >= 3)
        => InRange(company_esg, 0, ScoreMax * Milli)

\* C2: a single-element price series yields the no-data outcome: the score
\* is None and the run ends with "Invalid ticker or no data available"
C2_SingleElementNoData ==
    (PrimaryFetched /\ Len(closes) = 1)
        => /\ IsNone(company_esg)
           /\ pc = "done"
           /\ out = <<"error_no_data">>

PrimaryOk == PrimaryFetched /\ ~IsNone(company_esg)

CompetitorFailed ==
    /\ calls.competitor = 1
    /\ pc \notin {"comp_calc"}
    /\ fault = "competitor" \/ IsNone(competitor_esg)

\* C3: when the primary score was computed and the competitor's fetch fails
\* (empty history or provider error), the run ends with the gauge, the two
\* charts and the insight rendered, the comparison absent and no
\* "Data fetch failed" error
C3_CompetitorFailureNotFatal ==
    (pc = "done" /\ PrimaryOk /\ CompetitorFailed)
        => /\ {"gauge", "price", "vol", "insight"} \subseteq Range(out)
           /\ Range(out) \cap {"comp_chart", "comp_table", "error_fetch"} = {}

PrimaryFailed ==
    \/ fault \in {"info", "history"}
    \/ calls.primary = 1 /\ fault = "none" /\ closes = <<>>

\* C4: when the primary ticker fails (empty history, or the provider raises
\* for its info or its history), the run is over with exactly one error
\* message and no section, the history was asked for at most once and the
\* competitor never
C4_PrimaryFailureAborts ==
    PrimaryFailed
        => /\ pc = "done"
           /\ out = IF fault = "none" THEN <<"error_no_data">>
                    ELSE <<"error_fetch">>
           /\ calls.primary <= 1
           /\ calls.competitor = 0

C4_Witness ==
    /\ pc = "done"
    /\ calls.primary = 1
    /\ fault = "none"
    /\ closes = <<>>
    /\ out = <<"error_no_data">>

\* the places of the list that hold a ticker other than the company
OtherPlaces(list, comp) == {i \in DOMAIN list : list[i] # comp}

Least(S) == CHOOSE i \in S : \A j \in S : i <= j

\* C5: the competitor is the first ticker of the sector's list that differs
\* from the company, none when the sector is unmapped or the list holds no
\* other ticker; it is never the company, and for a list of the company and
\* one other ticker it is that other ticker, whichever comes first
C5_CompetitorSelection ==
    pc = "dir_done" =>
        /\ competitor # company
        /\ IF sector \in DOMAIN sector_competitors
           THEN LET list == sector_competitors[sector]
                    others == OtherPlaces(list, company)
                IN  /\ others = {} => competitor = NoTicker
                    /\ others # {} => competitor = list[Least(others)]
                    /\ (Len(list) = 2 /\ company \in Range(list))
                          => Range(list) = {company, competitor}
           ELSE competitor = NoTicker

\* the company is the second of the two tickers of its sector's list
C5_Witness ==
    /\ pc = "dir_done"
    /\ sector \in DOMAIN sector_competitors
    /\ Len(sector_competitors[sector]) = 2
    /\ sector_competitors[sector][2] = company
    /\ competitor = sector_competitors[sector][1]

\* C6: for a constant price series calculate_esg yields vol_score = 1,
\* return_score = 0.5, sharpe_score = 0.5, sharpe_ratio = 0 and
\* esg_score = 67.5
C6_ConstantSeries ==
    (PrimaryFetched /\ Len(closes) >= 2 /\ AllEqual(closes))
        => LET r == calculate_esg(closes)
           IN  /\ r.volatility = F(0)
               /\ r.mean_return = F(0)
               /\ r.sharpe_ratio = F(0)
               /\ r.vol_score = F(Milli)
               /\ r.return_score = F(Milli \div 2)
               /\ r.sharpe_score = F(Milli \div 2)
               /\ company_esg = F((135 * Milli) \div 2)

\* the same from 3 points on, where the sample deviation is defined
ConstantSeriesFromThreePoints ==
    (PrimaryFetched /\ Len(closes) >= 3 /\ AllEqual(closes))
        => company_esg = F((135 * Milli) \div 2)

ProbeLow == IF probe.kind = "return" THEN ReturnLow ELSE SharpeLow
ProbeHigh == IF probe.kind = "return" THEN ReturnHigh ELSE SharpeHigh

\* C8: return_score and sharpe_score are non-decreasing in their argument,
\* stay in [0, 1], are 0 at and below the lower clip boundary (-0.2, -2) and
\* 1 at and above the upper one (0.2, 2)
C8_ClippedScores ==
    pc = "probe_done" =>
        /\ InRange(probe.y1, 0, Milli)
        /\ InRange(probe.y2, 0, Milli)
        /\ probe.x1 <= probe.x2 => probe.y1.v <= probe.y2.v
        /\ probe.x1 <= ProbeLow => probe.y1.v = 0
        /\ probe.x1 >= ProbeHigh => probe.y1.v = Milli

\* one argument below the lower boundary, the other strictly inside the band
C8_Witness ==
    /\ pc = "probe_done"
    /\ probe.kind = "return"
    /\ probe.x1 < ReturnLow
    /\ probe.y1 = F(0)
    /\ ReturnLow < probe.x2 /\ probe.x2 < ReturnHigh
    /\ 0 < probe.y2.v /\ probe.y2.v < Milli

Rank(section) == CHOOSE i \in DOMAIN Sections : Sections[i] = section

Mandatory(section) ==
    IF section = "comp_table" THEN {"gauge", "price", "vol", "comp_chart"}
    ELSE {"gauge", "price", "vol"}

\* C9: the sections come out in the order gauge, price chart, volatility
\* chart, comparison (only with a competitor), insight; a rendered section
\* has every earlier mandatory section before it; the insight and an error
\* message are never both shown
C9_SectionOrder ==
    /\ \A i, j \in DOMAIN out :
          (i < j /\ out[i] \in Range(Sections) /\ out[j] \in Range(Sections))
              => Rank(out[i]) < Rank(out[j])
    /\ \A i \in DOMAIN out :
          out[i] \in Range(Sections) =>
              \A m \in Mandatory(out[i]) :
                  Rank(m) < Rank(out[i]) => \E k \in 1 .. (i - 1) : out[k] = m
    /\ "comp_chart" \in Range(out) => competitor # NoTicker
    /\ ("insight" \in Range(out) /\ competitor # NoTicker)
          => {"comp_chart", "comp_table"} \subseteq Range(out)
    /\ "insight" \in Range(out)
          => Range(out) \cap {"error_fetch", "error_no_data", "warning"} = {}

C9_Witness ==
    /\ pc = "done"
    /\ out = <<"gauge", "price", "vol", "comp_chart", "comp_table", "insight">>

\* C10: the competitor's history is fetched at most once in a run, and only
\* after the primary score was computed and a competitor selected: never
\* for an empty ticker, a failed primary ticker or no competitor
C10_CompetitorFetch ==
    /\ calls.competitor <= 1
    /\ calls.competitor = 1 =>
          /\ company # ""
          /\ PrimaryOk
          /\ ~PrimaryFailed
          /\ competitor # NoTicker
          /\ {"gauge", "price", "vol"} \subseteq Range(out)

C10_Witness ==
    /\ calls.competitor = 1
    /\ pc = "comp_chart"
    /\ IsNum(competitor_esg)

=============================================================================
